---- MODULE Spec2Model ----
(***************************************************************************)
(* Model of the comfyui client process (src/client/src/lib.rs): the        *)
(* single-threaded event loop of init, the dispatcher handle_message, the  *)
(* admin / public-request / public-response handlers, the watchdog timer   *)
(* path and the blocking chain sync await_chain_state.                     *)
(*                                                                         *)
(* Option<T> values are sequences of length 0 (None) or 1 (Some).          *)
(***************************************************************************)
EXTENDS Integers, Sequences, FiniteSets, TLC

\* ---------------------------------------------------------------- bounds
MaxJobId == 2
MaxImages == 2
MaxPending == 2
MaxTimers == 1

\* ------------------------------------------------------- program constants
SyncTimeout == 5
RunJobTimeout == 20
WatchdogMillis == 10000

JobIds == 1..MaxJobId

None == <<>>
Some(x) == <<x>>
IsSome(o) == Len(o) = 1
IsNone(o) == Len(o) = 0
Unwrap(o) == o[1]

\* ------------------------------------------------------------- identities
OurNode == "our.os"
OtherNode == "other.os"
Nodes == {OurNode, OtherNode}

\* A ProcessId, process_name:package_name:publisher_node.
ProcessIdOf(name, package, publisher) ==
  [process_name |-> name, package_name |-> package, publisher_node |-> publisher]
AppProcess == ProcessIdOf("app", "pkg", "pub")
TimerProcess == ProcessIdOf("timer", "distro", "sys")

\* An address, node@process:package:publisher.
Addr(node, process) == [node |-> node, process |-> process]
TimerAddress == Addr(OurNode, TimerProcess)

\* --------------------------------------------------------------- strings
\* A string is the sequence of its tokens: the separators '@' and ':' split
\* it, and '@' is kept as a token of its own.
ProcessIdStrings == { <<"router", "comfy", "nick">>, <<"router", "comfy">> }
AddressStrings ==
  { <<"seq.os", "@", "sequencer", "rollup", "nick">>, <<"seq.os", "sequencer">> }

\* str.parse::<ProcessId>(): exactly three ':'-separated segments.
ParseProcessId(str) ==
  IF Len(str) = 3 /\ \A i \in 1..3 : str[i] # "@"
    THEN [ok |-> TRUE, val |-> Some(ProcessIdOf(str[1], str[2], str[3]))]
    ELSE [ok |-> FALSE, val |-> None]

\* str.parse::<Address>(): a node, '@', and a process id.
ParseAddress(str) ==
  IF Len(str) = 5 /\ str[1] # "@" /\ str[2] = "@" /\ ParseProcessId(SubSeq(str, 3, 5)).ok
    THEN [ok |-> TRUE,
          val |-> Some(Addr(str[1], Unwrap(ParseProcessId(SubSeq(str, 3, 5)).val)))]
    ELSE [ok |-> FALSE, val |-> None]

\* serde_json::to_vec(&job_id) and serde_json::from_slice::<u64>(context).
EncodeU64(n) == ToString(n)
DecodeU64(bytes) ==
  IF \E n \in 0..MaxJobId : ToString(n) = bytes
    THEN Some(CHOOSE n \in 0..MaxJobId : ToString(n) = bytes)
    ELSE None

\* ------------------------------------------------------------ chain state
\* OnChainDaoState: routers and one of the numeric parameters; members and
\* proposals travel with the snapshot and are never read by the process.
DefaultOnChainDaoState == [routers |-> <<>>, queue_response_timeout_seconds |-> 0]
Snapshots ==
  { [routers |-> <<"router.os">>, queue_response_timeout_seconds |-> 1],
    [routers |-> <<>>, queue_response_timeout_seconds |-> 1] }

DefaultState ==
  [current_job |-> None, router_process |-> None, rollup_sequencer |-> None,
   on_chain_state |-> DefaultOnChainDaoState]

CurrentJob(job_id, n) == [job_id |-> job_id, next_image_number |-> n]

\* --------------------------------------------------------------- messages
\* A body is the decoded view of the JSON bytes: shape names the enum variant
\* the bytes spell, the other fields its payload (unused ones at a default).
Body(shape, str, job_id, is_final) ==
  [shape |-> shape, str |-> str, job_id |-> job_id, is_final |-> is_final]

AdminBodies ==
  { Body("SetRouterProcess", s, 0, FALSE) : s \in ProcessIdStrings } \cup
  { Body("SetRollupSequencer", s, 0, FALSE) : s \in AddressStrings } \cup
  { Body("GetRollupState", <<>>, 0, FALSE) }
RunJobBodies == { Body("RunJob", <<"workflow">>, 0, FALSE) }
JobUpdateBodies == { Body("JobUpdate", <<>>, j, f) : j \in JobIds, f \in BOOLEAN }
GarbageBodies == { Body("Garbage", <<>>, 0, FALSE) }
RequestBodies == AdminBodies \cup RunJobBodies \cup JobUpdateBodies \cup GarbageBodies

ResponseBodies ==
  { Body("JobQueued", <<>>, j, FALSE) : j \in JobIds } \cup
  { Body("PaymentRequired", <<>>, 0, FALSE), Body("Error", <<"e">>, 0, FALSE),
    Body("JobUpdateAck", <<>>, 0, FALSE) } \cup GarbageBodies

Msg(kind, source, body, blob, context) ==
  [kind |-> kind, source |-> source, body |-> body, blob |-> blob, context |-> context]
NoMsg == Msg("none", Addr(OurNode, AppProcess), Body("Garbage", <<>>, 0, FALSE), FALSE, "")

\* serde_json::from_slice::<AdminRequest / PublicRequest / PublicResponse>
DecodesAsAdminRequest(body) ==
  body.shape \in {"SetRouterProcess", "SetRollupSequencer", "GetRollupState"}
DecodesAsPublicRequest(body) == body.shape \in {"RunJob", "JobUpdate"}
DecodesAsPublicResponse(body) ==
  body.shape \in {"JobQueued", "PaymentRequired", "Error", "JobUpdateAck"}


\* ------------------------------------------------------------ environment
RouterAddress == Addr("router.os", ProcessIdOf("router", "comfy", "nick"))

\* What the sequencer's side of the blocking round trip can produce:
\* a timeout / send error, a response without blob, or a blob.
Reply(kind, blob, shape, snap) == [kind |-> kind, blob |-> blob, shape |-> shape, state |-> snap]
SyncReplies ==
  { Reply("timeout", FALSE, "Garbage", DefaultOnChainDaoState),
    Reply("response", FALSE, "Garbage", DefaultOnChainDaoState),
    Reply("response", TRUE, "Garbage", DefaultOnChainDaoState),
    Reply("response", TRUE, "ReadRouters", DefaultOnChainDaoState) } \cup
  { Reply("response", TRUE, "ReadAll", s) : s \in Snapshots }

\* ----------------------------------------------------------------- state
VARIABLES
  state,      \* State: the in-memory record owned by init's loop
  persisted,  \* the record last written by set_state
  timers,     \* timers[j]: watchdog timers pending at the timer process whose context encodes j
  stale,      \* stale[j]: how many of timers[j] belong to a job that has completed since
  pending,    \* requests forwarded to the router that still expect their response
  run,        \* Some(k): the tracked session has taken k non-final updates, all for its own job
  syncs,      \* reads sent to the sequencer whose round trip has not ended
  pc,         \* where init's loop stands: await_message, await_chain_state (blocked in
              \* the handler), iteration_done (the handler has returned), crashed
  out         \* the message being handled and what handling it has done so far

vars == <<state, persisted, timers, stale, pending, run, syncs, pc, out>>

\* ----------------------------------------------------------------- effects
\* The running account of one call of handle_message: the state it works on,
\* the record it last saved, its result, and everything it issued.
Effect(s, p) ==
  [state |-> s, saved |-> p, result |-> "Ok", sent |-> <<>>, resp |-> <<>>,
   timers |-> <<>>, files |-> <<>>, saves |-> 0]

Err(e, err) == [e EXCEPT !.result = err]

\* State::save
save(e) == [e EXCEPT !.saved = e.state, !.saves = @ + 1]

OutboundRequest(target, body, blob, timeout) ==
  [target |-> target, body |-> body, blob |-> blob, timeout |-> timeout]
send_request(e, req) == [e EXCEPT !.sent = Append(@, req)]

AdminResponse(shape, err) == [shape |-> shape, err |-> err]
send_response(e, r) == [e EXCEPT !.resp = Append(@, r)]

\* Variant: the timer is set without a context.
set_timer_NoContext(e, millis, context) ==
  [e EXCEPT !.timers = Append(@, [millis |-> millis, context |-> ""])]

\* timer::set_timer(duration, context)
set_timer(e, millis, context) ==
  [e EXCEPT !.timers = Append(@, [millis |-> millis, context |-> context])]

\* ------------------------------------------------------- await_chain_state
\* Variant: the read is sent with send(), and its answer is not awaited.
await_chain_state_send_NoWait(e) ==
  IF IsNone(e.state.rollup_sequencer)
    THEN Err(e, "SequencerNotSet")
    ELSE send_request(e, OutboundRequest(Unwrap(e.state.rollup_sequencer),
                                         Body("Empty", <<>>, 0, FALSE),
                                         "ReadAll", SyncTimeout))

\* Up to the blocking send_and_await_response.
await_chain_state_send(e) ==
  IF IsNone(e.state.rollup_sequencer)
    THEN Err(e, "SequencerNotSet")
    ELSE Err(send_request(e, OutboundRequest(Unwrap(e.state.rollup_sequencer),
                                             Body("Empty", <<>>, 0, FALSE),
                                             "ReadAll", SyncTimeout)),
             "Blocked")

\* A reply is usable when it came back in time, carries a blob, and the blob
\* is SequencerResponse::Read(ReadResponse::All(..)).
SyncReplyError(reply) ==
  IF reply.kind = "timeout" THEN "SyncTimeout"
  ELSE IF ~reply.blob THEN "SyncNoBlob"
  ELSE IF reply.shape # "ReadAll" THEN "SyncWrongResponse"
  ELSE "Ok"

\* Variant: the snapshot is taken from any blob before its shape is checked.
await_chain_state_recv_EagerOverwrite(e, reply) ==
  IF reply.kind = "timeout" \/ ~reply.blob
    THEN Err(e, SyncReplyError(reply))
    ELSE LET e1 == save([e EXCEPT !.state.on_chain_state = reply.state])
         IN  Err(e1, SyncReplyError(reply))

\* Variant: the new snapshot is kept in memory and not saved.
await_chain_state_recv_NoSave(e, reply) ==
  IF SyncReplyError(reply) # "Ok"
    THEN Err(e, SyncReplyError(reply))
    ELSE [e EXCEPT !.state.on_chain_state = reply.state, !.result = "Ok"]

\* From the return of send_and_await_response on.
await_chain_state_recv(e, reply) ==
  IF SyncReplyError(reply) # "Ok"
    THEN Err(e, SyncReplyError(reply))
    ELSE save([e EXCEPT !.state.on_chain_state = reply.state, !.result = "Ok"])

\* ---------------------------------------------------- handle_admin_request
\* Variant: the source node is not compared.
SourceIsOur_AnyNode(message) == TRUE

\* source.node() != our.node()
SourceIsOur(message) == message.source.node = OurNode

handle_admin_request(message, e) ==
  IF ~SourceIsOur(message)
    THEN IF ~DecodesAsAdminRequest(message.body)
           THEN Err(e, "NotAMatch")
           ELSE Err(e, "Unauthorized")
    ELSE CASE message.body.shape = "SetRouterProcess" ->
                LET p == ParseProcessId(message.body.str)
                IN  IF ~p.ok
                      THEN Err(e, "ParseError")
                      ELSE send_response(
                             save([e EXCEPT !.state.router_process = p.val]),
                             AdminResponse("SetRouterProcess", None))
           [] message.body.shape = "SetRollupSequencer" ->
                LET a == ParseAddress(message.body.str)
                IN  IF ~a.ok
                      THEN Err(e, "ParseError")
                      ELSE await_chain_state_send(
                             save([e EXCEPT !.state.rollup_sequencer = a.val]))
           [] message.body.shape = "GetRollupState" ->
                IF IsNone(e.state.rollup_sequencer)
                  THEN Err(send_response(e, AdminResponse("GetRollupState",
                                              Some("no rollup sequencer set"))),
                           "NoRollupSequencerSet")
                  ELSE await_chain_state_send(e)
           [] OTHER -> Err(e, "NotAMatch")

\* The rest of handle_admin_request once await_chain_state has returned:
\* `?` propagates its error, otherwise the success response is sent.
handle_admin_request_resume(message, e) ==
  IF e.result # "Ok"
    THEN e
    ELSE send_response(e, AdminResponse(message.body.shape, None))

\* --------------------------------------------------- handle_public_request
\* Variant: the check for a job in flight is missing.
run_job_precondition_NoJobCheck(s) ==
  IF IsNone(s.router_process) THEN "NoRouterProcess"
  ELSE IF IsNone(s.rollup_sequencer) THEN "NoRollupSequencer"
  ELSE "Ok"

\* The three early returns of the RunJob arm.
run_job_precondition(s) ==
  IF IsSome(s.current_job) THEN "JobInProgress"
  ELSE IF IsNone(s.router_process) THEN "NoRouterProcess"
  ELSE IF IsNone(s.rollup_sequencer) THEN "NoRollupSequencer"
  ELSE "Ok"

\* format!("{images_dir}/{job_id}-{}.jpg", ..)
artifact_file(job_id, is_final, current_job) ==
  [job_id |-> job_id,
   suffix |-> IF is_final THEN "final" ELSE ToString(current_job.next_image_number)]

\* Variant: the counter is not incremented.
advance_job_NoIncrement(current_job, is_final) ==
  IF is_final THEN None ELSE Some(current_job)

\* Variant: every update ends the session.
advance_job_AlwaysClear(current_job, is_final) == None

\* next_image_number += 1; if is_final { current_job = None }
\* (the counter is a u32; MaxImages keeps it far below the u32 range)
advance_job(current_job, is_final) ==
  IF is_final
    THEN None
    ELSE Some([current_job EXCEPT !.next_image_number = @ + 1])

\* Variant: the session made for an update starts past its first image.
synthesized_session_StartsAtOne(job_id) == Some(CurrentJob(job_id, 1))

\* Some(CurrentJob { job_id, next_image_number: 0 }), for an update that
\* finds no current_job.
synthesized_session(job_id) == Some(CurrentJob(job_id, 0))

RECURSIVE handle_public_request(_, _, _)
handle_public_request(message, e, vfs_ok) ==
  CASE message.body.shape = "RunJob" ->
         IF run_job_precondition(e.state) # "Ok"
           THEN Err(e, run_job_precondition(e.state))
         ELSE IF Len(e.state.on_chain_state.routers) = 0
           THEN Err(e, "Panic")   \* routers[0]: index out of bounds
         ELSE send_request(e, OutboundRequest(
                Addr(e.state.on_chain_state.routers[1], Unwrap(e.state.router_process)),
                message.body, "", RunJobTimeout))
    [] message.body.shape = "JobUpdate" ->
         IF IsNone(e.state.current_job)
           THEN handle_public_request(
                  message,
                  save([e EXCEPT !.state.current_job =
                                   synthesized_session(message.body.job_id)]),
                  vfs_ok)
         ELSE IF ~message.blob
           THEN Err(e, "NoBlob")
         ELSE LET current_job == Unwrap(e.state.current_job)
                  file == artifact_file(message.body.job_id, message.body.is_final,
                                        current_job)
                  e1 == save([e EXCEPT !.state.current_job =
                                         advance_job(current_job, message.body.is_final)])
                  \* vfs::open_file and file.write on that path, after the save
                  e2 == [e1 EXCEPT !.files = Append(@, [file |-> file,
                                                        written |-> vfs_ok])]
              IN  IF vfs_ok THEN e2 ELSE Err(e2, "VfsError")
    [] OTHER -> Err(e, "NotAMatch")

\* -------------------------------------------------- handle_public_response
handle_public_response(message, e) ==
  CASE message.body.shape = "JobQueued" ->
         save([set_timer(e, WatchdogMillis, EncodeU64(message.body.job_id))
                 EXCEPT !.state.current_job = Some(CurrentJob(message.body.job_id, 0))])
    [] message.body.shape \in {"PaymentRequired", "Error", "JobUpdateAck"} -> e
    [] OTHER -> Err(e, "NotAMatch")

\* ----------------------------------------------------------- handle_message
\* message.source().to_string() == format!("{}@timer:distro:sys", our.node())
FromTimer(message) == message.source = TimerAddress

\* Variant: any timer counts as the tracked job's.
timer_matches_AnyJob(current_job, timer_job_id) == TRUE

\* current_job.job_id == timer_job_id
timer_matches(current_job, timer_job_id) == current_job.job_id = timer_job_id

\* Variant: the timed-out job is cleared in memory and not saved.
handle_timer_NoSave(message, e) ==
  IF IsNone(e.state.current_job)
    THEN e
    ELSE LET id == DecodeU64(message.context)
         IN  IF IsNone(id)
               THEN Err(e, "ContextError")
             ELSE IF timer_matches(Unwrap(e.state.current_job), Unwrap(id))
               THEN Err([e EXCEPT !.state.current_job = None], "TimedOut")
             ELSE e

handle_timer(message, e) ==
  IF IsNone(e.state.current_job)
    THEN e
    ELSE LET id == DecodeU64(message.context)
         IN  IF IsNone(id)
               THEN Err(e, "ContextError")
             ELSE IF timer_matches(Unwrap(e.state.current_job), Unwrap(id))
               THEN Err(save([e EXCEPT !.state.current_job = None]), "TimedOut")
             ELSE e

\* Variant: the public-request handler's error is returned as it is.
handle_message_ReturnsNoMatch(message, e, vfs_ok) ==
  IF message.kind = "request"
    THEN LET a == handle_admin_request(message, e)
         IN  IF a.result # "NotAMatch"
               THEN a
               ELSE handle_public_request(message, Err(a, "Ok"), vfs_ok)
    ELSE LET r == handle_public_response(message, e)
         IN  IF r.result # "NotAMatch"
               THEN r
               ELSE IF FromTimer(message)
                      THEN handle_timer(message, Err(r, "Ok"))
                      ELSE Err(r, "Ok")

handle_message(message, e, vfs_ok) ==
  IF message.kind = "request"
    THEN LET a == handle_admin_request(message, e)
         IN  IF a.result # "NotAMatch"
               THEN a
               ELSE LET q == handle_public_request(message, Err(a, "Ok"), vfs_ok)
                    IN  IF q.result # "NotAMatch"
                          THEN q
                          ELSE Err(q, "UnexpectedRequest")
    ELSE LET r == handle_public_response(message, e)
         IN  IF r.result # "NotAMatch"
               THEN r
               ELSE IF FromTimer(message)
                      THEN handle_timer(message, Err(r, "Ok"))
                      ELSE Err(r, "Ok")


\* -------------------------------------------------------------------- init
\* The number of timers in a bag of timers.
BagSize(bag) ==
  LET RECURSIVE Sum(_)
      Sum(j) == IF j = 0 THEN 0 ELSE bag[j] + Sum(j - 1)
  IN  Sum(MaxJobId)

\* What one handled message leaves for the claims to look at.
Outcome(message, e, stale_timer) ==
  [msg |-> message, result |-> e.result, sent |-> e.sent, resp |-> e.resp,
   timers |-> e.timers, files |-> e.files, saves |-> e.saves,
   stale_timer |-> stale_timer]

\* State::load with nothing stored, before the first await_message.
Init ==
  /\ state = DefaultState
  /\ persisted = DefaultState
  /\ timers = [j \in JobIds |-> 0]
  /\ stale = [j \in JobIds |-> 0]
  /\ pending = 0
  /\ run = None
  /\ syncs = 0
  /\ pc = "await_message"
  /\ out = Outcome(NoMsg, Effect(DefaultState, DefaultState), FALSE)

\* Requests sent to the router expect a response; the read sent to the
\* sequencer is answered inside await_chain_state.
ForwardedCount(e) ==
  Cardinality({ i \in 1..Len(e.sent) : e.sent[i].timeout = RunJobTimeout })

SyncCount(e) ==
  Cardinality({ i \in 1..Len(e.sent) : e.sent[i].timeout = SyncTimeout })

TimersSet(e, j) ==
  Cardinality({ i \in 1..Len(e.timers) : DecodeU64(e.timers[i].context) = Some(j) })

\* A job completes when a final update for it is accepted: the tracked job
\* (or the session just made for the update) has the update's job id.
Completes(message, e) ==
  /\ message.kind = "request"
  /\ message.body.shape = "JobUpdate"
  /\ message.body.is_final
  /\ e.result = "Ok"

\* A JobUpdate with its blob passes every check of its arm and is given an
\* artifact path.
AcceptedUpdate(message) ==
  message.kind = "request" /\ message.body.shape = "JobUpdate" /\ message.blob

\* The run of updates of the tracked session after `message`: it starts at 0
\* with the session, grows with each accepted non-final update for the
\* tracked job, and is lost to an update for another job.
NextRun(message, e) ==
  IF IsNone(e.state.current_job) THEN None
  ELSE IF message.kind = "response" /\ message.body.shape = "JobQueued" THEN Some(0)
  ELSE IF message.kind = "request" /\ message.body.shape = "JobUpdate"
    THEN LET before == IF IsNone(state.current_job) THEN Some(0) ELSE run
         IN  IF ~message.blob THEN before
             ELSE IF IsSome(before)
                     /\ message.body.job_id = Unwrap(e.state.current_job).job_id
               THEN Some(Unwrap(before) + 1)
             ELSE None
  ELSE run

\* One turn of init's loop around handle_message: the state the handler
\* leaves, the record it saved, what it sent, and where the loop goes next.
Dispatch(message, vfs_ok, answered, fired, fired_stale) ==
  /\ pc = "await_message"
  /\ \E e \in {handle_message(message, Effect(state, persisted), vfs_ok)} :
     \E after \in {[j \in JobIds |->
                     timers[j] - (IF j = fired THEN 1 ELSE 0) + TimersSet(e, j)]} :
       /\ pending - answered + ForwardedCount(e) <= MaxPending
       /\ BagSize(after) <= MaxTimers
       /\ IsSome(e.state.current_job)
            => Unwrap(e.state.current_job).next_image_number <= MaxImages
       /\ state' = e.state
       /\ persisted' = e.saved
       /\ pending' = pending - answered + ForwardedCount(e)
       /\ timers' = after
       /\ stale' = [j \in JobIds |->
                      IF Completes(message, e) /\ message.body.job_id = j
                        THEN after[j]
                        ELSE stale[j] - (IF j = fired /\ fired_stale THEN 1 ELSE 0)]
       /\ run' = NextRun(message, e)
       /\ syncs' = syncs + SyncCount(e)
       /\ pc' = CASE e.result = "Blocked" -> "await_chain_state"
                  [] e.result = "Panic" -> "crashed"
                  [] OTHER -> "iteration_done"
       /\ out' = Outcome(message, e, fired_stale)

\* ------------------------------------------------------------------ actions
\* A request whose body spells an AdminRequest, from any node.
AdminRequestArrives ==
  /\ pc = "await_message"
  /\ \E node \in Nodes, body \in AdminBodies :
       Dispatch(Msg("request", Addr(node, AppProcess), body, FALSE, ""),
                TRUE, 0, 0, FALSE)

\* A RunJob request, from any node.
RunJobArrives ==
  /\ pc = "await_message"
  /\ \E node \in Nodes, body \in RunJobBodies :
       Dispatch(Msg("request", Addr(node, AppProcess), body, FALSE, ""),
                TRUE, 0, 0, FALSE)

\* A JobUpdate request, from any node, with or without its blob; the artifact
\* store may fail when there is a blob to write.
JobUpdateArrives ==
  \E node \in Nodes, body \in JobUpdateBodies, blob \in BOOLEAN, vfs_ok \in BOOLEAN :
    /\ blob \/ vfs_ok
    /\ Dispatch(Msg("request", Addr(node, AppProcess), body, blob, ""),
                vfs_ok, 0, 0, FALSE)

\* A request that is neither an AdminRequest nor a PublicRequest.
UnknownRequestArrives ==
  /\ pc = "await_message"
  /\ \E node \in Nodes, body \in GarbageBodies :
       Dispatch(Msg("request", Addr(node, AppProcess), body, FALSE, ""),
                TRUE, 0, 0, FALSE)

\* The router answers a forwarded request.
RouterResponds ==
  /\ pending > 0
  /\ \E body \in ResponseBodies :
       Dispatch(Msg("response", RouterAddress, body, FALSE, ""), TRUE, 1, 0, FALSE)

\* A watchdog timer fires: the timer process answers with the context the
\* timer was set with.
TimerFires ==
  \E j \in JobIds, is_stale \in BOOLEAN :
    /\ IF is_stale THEN stale[j] > 0 ELSE timers[j] - stale[j] > 0
    /\ Dispatch(Msg("response", TimerAddress, Body("Garbage", <<>>, 0, FALSE),
                    FALSE, EncodeU64(j)),
                TRUE, 0, j, is_stale)

\* await_message returns Err(SendError): a forwarded request got no answer.
SendErrorArrives ==
  /\ pc = "await_message"
  /\ pending > 0
  /\ LET e == Err(save([Effect(state, persisted) EXCEPT !.state.current_job = None]),
                  "SendError")
     IN  /\ state' = e.state
         /\ persisted' = e.saved
         /\ out' = Outcome(Msg("send_error", RouterAddress,
                               Body("Garbage", <<>>, 0, FALSE), FALSE, ""), e, FALSE)
  /\ pending' = pending - 1
  /\ run' = None
  /\ pc' = "iteration_done"
  /\ UNCHANGED <<timers, stale, syncs>>

\* send_and_await_response returns inside await_chain_state, and the admin
\* handler that called it runs to its end.
ChainSyncReturns ==
  /\ pc = "await_chain_state"
  /\ \E reply \in SyncReplies :
       LET e0 == [Effect(state, persisted) EXCEPT
                    !.sent = out.sent, !.resp = out.resp, !.saves = out.saves]
           e == handle_admin_request_resume(out.msg, await_chain_state_recv(e0, reply))
       IN  /\ state' = e.state
           /\ persisted' = e.saved
           /\ out' = Outcome(out.msg, e, FALSE)
  /\ syncs' = syncs - 1
  /\ pc' = "iteration_done"
  /\ UNCHANGED <<timers, stale, pending, run>>

\* The end of one iteration of the loop: the result of handle_message is
\* dropped (an error after it is printed) and the loop returns to
\* await_message.
NextIteration ==
  /\ pc = "iteration_done"
  /\ pc' = "await_message"
  /\ out' = Outcome(NoMsg, Effect(DefaultState, DefaultState), FALSE)
  /\ UNCHANGED <<state, persisted, timers, stale, pending, run, syncs>>

Next ==
  \/ AdminRequestArrives
  \/ RunJobArrives
  \/ JobUpdateArrives
  \/ UnknownRequestArrives
  \/ RouterResponds
  \/ TimerFires
  \/ SendErrorArrives
  \/ ChainSyncReturns
  \/ NextIteration

Spec == Init /\ [][Next]_vars

\* The timer process delivers the watchdog timer set with context j.
TimerDelivered(j) == TimerFires /\ out'.msg.context = EncodeU64(j)

\* The loop keeps running, the blocking read returns (it has a timeout), and
\* every watchdog timer that has been set is delivered and handled; nothing
\* is assumed of the requests and of the router's messages.
LiveSpec ==
  /\ Spec
  /\ WF_vars(NextIteration)
  /\ WF_vars(ChainSyncReturns)
  /\ \A j \in JobIds : SF_vars(TimerDelivered(j))


\* =================================================================== claims
IsRequest(o, shape) == o.msg.kind = "request" /\ o.msg.body.shape = shape
TrackedId(s) == Unwrap(s.current_job).job_id
SyncFailures == {"SequencerNotSet", "SyncTimeout", "SyncNoBlob", "SyncWrongResponse"}

\* ----------------------------------------------------------------------- C1
AdminFromOtherNode(o) ==
  /\ o.msg.kind = "request"
  /\ DecodesAsAdminRequest(o.msg.body)
  /\ o.msg.source.node # OurNode

\* C1: a request whose body decodes as an AdminRequest and whose source node
\* is not this process's node is rejected with the authorization error (not
\* the result of the public-request handler), the State and the persisted
\* record are unchanged, and no request, response, timer, save or artifact
\* write is issued.
C1_AdminFromOtherNodeRejected ==
  [][AdminFromOtherNode(out') =>
       /\ out'.result = "Unauthorized"
       /\ state' = state
       /\ persisted' = persisted
       /\ out'.sent = <<>> /\ out'.resp = <<>> /\ out'.timers = <<>>
       /\ out'.files = <<>> /\ out'.saves = 0
       /\ timers' = timers /\ pending' = pending /\ pc' = "iteration_done"]_vars

C1_Witness ==
  /\ AdminFromOtherNode(out)
  /\ out.msg.body.shape = "SetRouterProcess"
  /\ ParseProcessId(out.msg.body.str).ok
  /\ out.result = "Unauthorized"
  /\ IsNone(state.router_process)
  /\ IsSome(state.current_job)

\* ----------------------------------------------------------------------- C2
\* The update being handled continues (or starts) a run of updates for one job.
InRun(message) ==
  \/ IsNone(state.current_job)
  \/ IsSome(run) /\ TrackedId(state) = message.body.job_id
RunLength == IF IsNone(state.current_job) THEN 0 ELSE Unwrap(run)

C3_RunJobWhileJobTracked ==
  [][(IsRequest(out', "RunJob") /\ IsSome(state.current_job)) =>
       /\ out'.result = "JobInProgress"
       /\ out'.sent = <<>>
       /\ pending' = pending
       /\ state' = state
       /\ persisted' = persisted]_vars

C3_Witness ==
  /\ IsRequest(out, "RunJob")
  /\ out.result = "JobInProgress"
  /\ IsSome(state.current_job)
  /\ IsSome(state.router_process)
  /\ IsSome(state.rollup_sequencer)
  /\ Len(state.on_chain_state.routers) > 0

\* ----------------------------------------------------------------------- C4
\* C4: from the call of await_chain_state to its failing return (no endpoint,
\* timeout, no blob, a response that is not Read(All(..))), on_chain_state is
\* what it was, in memory and in the persisted record.
C4_FailedSyncKeepsSnapshot ==
  [][(pc' = "await_chain_state" \/ out'.result \in SyncFailures) =>
       /\ state'.on_chain_state = state.on_chain_state
       /\ persisted'.on_chain_state = persisted.on_chain_state]_vars

C4_Witness ==
  /\ out.result = "SyncWrongResponse"
  /\ pc = "iteration_done"
  /\ state.on_chain_state # DefaultOnChainDaoState
  /\ persisted.on_chain_state = state.on_chain_state

\* ----------------------------------------------------------------------- C5
TimerMessage(o) == o.msg.kind = "response" /\ o.msg.source = TimerAddress

\* C5: a timer notification clears current_job, saves once and returns the
\* "timed out" error exactly when a job is tracked and the notification's
\* context is that job's id; otherwise it returns Ok, the State is unchanged
\* and nothing is saved.
C5_TimerActsOnlyOnTrackedJob ==
  [][TimerMessage(out') =>
       IF IsSome(state.current_job)
          /\ out'.msg.context = EncodeU64(TrackedId(state))
         THEN /\ out'.result = "TimedOut"
              /\ state' = [state EXCEPT !.current_job = None]
              /\ persisted' = state'
              /\ out'.saves = 1
         ELSE /\ out'.result = "Ok"
              /\ state' = state
              /\ persisted' = persisted
              /\ out'.saves = 0]_vars

C5_Witness ==
  /\ TimerMessage(out)
  /\ out.result = "Ok"
  /\ IsSome(state.current_job)
  /\ out.msg.context # EncodeU64(TrackedId(state))

\* ----------------------------------------------------------------------- C6
\* C6: the watchdog timer of a job that has completed (its final update was
\* accepted) is never acted upon when it fires: it neither clears current_job
\* nor raises the timeout error.
C6_StaleTimerNeverActedUpon ==
  (TimerMessage(out) /\ out.stale_timer) => (out.result = "Ok" /\ out.saves = 0)

\* ----------------------------------------------------------------------- C7
\* C7: no message crashes the process: handle_message always returns to the
\* loop (or is blocked in the chain sync), the process is never dead.
C7_NoMessageCrashesTheProcess == pc # "crashed"

\* ----------------------------------------------------------------------- C8
AdminFromOurNode(o) ==
  /\ o.msg.kind = "request"
  /\ DecodesAsAdminRequest(o.msg.body)
  /\ o.msg.source.node = OurNode

\* C8: once an AdminRequest from the local node has been handled, exactly one
\* AdminResponse has been sent for it, on success (err: None) and on failure
\* (err: Some).
C8_EveryAdminRequestAnswered ==
  (AdminFromOurNode(out) /\ pc # "await_chain_state") =>
    /\ Len(out.resp) = 1
    /\ out.resp[1].shape = out.msg.body.shape
    /\ IsNone(out.resp[1].err) <=> out.result = "Ok"

\* ----------------------------------------------------------------------- C9
FinalUpdateAccepted(o) == AcceptedUpdate(o.msg) /\ o.msg.body.is_final

\* C9 as stated: current_job becomes Some only through a JobQueued
\* confirmation and becomes None only through a final update or a timeout.
C9_OnlyJobQueuedSetsCurrentJob ==
  [][/\ (IsNone(state.current_job) /\ IsSome(state'.current_job))
          => (out'.msg.kind = "response" /\ out'.msg.body.shape = "JobQueued")
     /\ (IsSome(state.current_job) /\ IsNone(state'.current_job))
          => (FinalUpdateAccepted(out') \/ TimerMessage(out'))]_vars

\* C9 amended: current_job becomes Some only through a JobQueued confirmation
\* or a JobUpdate request handled while no job is tracked; it becomes None
\* only through an accepted final update, a timeout whose context is the
\* tracked job id, or a SendError returned by await_message; a RunJob request
\* never changes it.
C9_CurrentJobTransitions ==
  [][/\ (IsNone(state.current_job) /\ IsSome(state'.current_job))
          => \/ out'.msg.kind = "response" /\ out'.msg.body.shape = "JobQueued"
             \/ IsRequest(out', "JobUpdate")
     /\ (IsSome(state.current_job) /\ IsNone(state'.current_job))
          => \/ FinalUpdateAccepted(out')
             \/ TimerMessage(out') /\ out'.msg.context = EncodeU64(TrackedId(state))
             \/ out'.msg.kind = "send_error"
     /\ IsRequest(out', "RunJob") => state'.current_job = state.current_job]_vars

C9_Witness ==
  /\ IsRequest(out, "JobUpdate")
  /\ ~out.msg.blob
  /\ out.result = "NoBlob"
  /\ out.saves = 1
  /\ state.current_job = Some(CurrentJob(out.msg.body.job_id, 0))
  /\ BagSize(timers) = 0

\* ---------------------------------------------------------------------- C10
RunJobPermitted(s) ==
  IsNone(s.current_job) /\ IsSome(s.router_process) /\ IsSome(s.rollup_sequencer)

\* C10: a RunJob request is forwarded exactly when no job is tracked and both
\* endpoints are set, as one request with the original body to
\* (routers[0], router_process); otherwise it fails naming the missing
\* prerequisite (the router first); the State is unchanged either way.
C10_RunJobForwardedIffPermitted ==
  [][IsRequest(out', "RunJob") =>
       /\ state' = state
       /\ persisted' = persisted
       /\ IF RunJobPermitted(state)
            THEN /\ out'.result = "Ok"
                 /\ Len(state.on_chain_state.routers) > 0
                 /\ out'.sent = <<OutboundRequest(
                                    Addr(state.on_chain_state.routers[1],
                                         Unwrap(state.router_process)),
                                    out'.msg.body, "", RunJobTimeout)>>
            ELSE /\ out'.sent = <<>>
                 /\ out'.result =
                      IF IsSome(state.current_job) THEN "JobInProgress"
                      ELSE IF IsNone(state.router_process) THEN "NoRouterProcess"
                      ELSE "NoRollupSequencer"]_vars

\* ---------------------------------------------------------------------- C11
IsResponse(o, shape) == o.msg.kind = "response" /\ o.msg.body.shape = shape

\* C11: a JobQueued{job_id} response sets current_job to {job_id, 0}
\* (whatever was tracked), saves the State, and sets exactly one watchdog
\* timer of the fixed 10 * 1000 duration whose context is the encoded job_id;
\* a PaymentRequired, Error or JobUpdate response changes nothing, saves
\* nothing and sets no timer.
C11_JobQueuedStartsSessionAndWatchdog ==
  [][/\ IsResponse(out', "JobQueued") =>
          /\ out'.result = "Ok"
          /\ state' = [state EXCEPT !.current_job =
                                      Some(CurrentJob(out'.msg.body.job_id, 0))]
          /\ persisted' = state'
          /\ out'.saves = 1
          /\ out'.timers = <<[millis |-> WatchdogMillis,
                              context |-> EncodeU64(out'.msg.body.job_id)]>>
          /\ DecodeU64(out'.timers[1].context) = Some(out'.msg.body.job_id)
          /\ timers' = [timers EXCEPT ![out'.msg.body.job_id] = @ + 1]
     /\ (\/ IsResponse(out', "PaymentRequired")
         \/ IsResponse(out', "Error")
         \/ IsResponse(out', "JobUpdateAck")) =>
          /\ out'.result = "Ok"
          /\ state' = state
          /\ persisted' = persisted
          /\ out'.saves = 0
          /\ out'.timers = <<>>
          /\ timers' = timers]_vars

C11_Witness ==
  /\ IsResponse(out, "JobQueued")
  /\ state.current_job = Some(CurrentJob(out.msg.body.job_id, 0))
  /\ persisted = state
  /\ timers[out.msg.body.job_id] = 1
  /\ Len(out.timers) = 1

\* ---------------------------------------------------------------------- C12
NoOutput(o) ==
  o.sent = <<>> /\ o.resp = <<>> /\ o.timers = <<>> /\ o.files = <<>> /\ o.saves = 0

\* The step is what the one handler result h leaves, and nothing else.
HandledBy(h) ==
  /\ state' = h.state
  /\ persisted' = h.saved
  /\ out' = Outcome(out'.msg, h, out'.stale_timer)

\* The handlers are tried in turn on the message of the step, each from the
\* State the message found: one that does not match has changed and sent
\* nothing, and the step is the work of the first one that matches.
OneHandlerActs ==
  LET m == out'.msg
      e0 == Effect(state, persisted)
      no_match == Err(e0, "NotAMatch")
  IN  /\ (pc = "await_message" /\ m.kind = "request") =>
            LET a == handle_admin_request(m, e0)
                q == handle_public_request(m, e0, out'.result # "VfsError")
            IN  IF a.result # "NotAMatch" THEN HandledBy(a)
                ELSE /\ a = no_match
                     /\ IF q.result # "NotAMatch" THEN HandledBy(q)
                        ELSE /\ q = no_match
                             /\ HandledBy(Err(e0, "UnexpectedRequest"))
      /\ (pc = "await_message" /\ m.kind = "response") =>
            LET r == handle_public_response(m, e0)
            IN  IF r.result # "NotAMatch" THEN HandledBy(r)
                ELSE /\ r = no_match
                     /\ IF FromTimer(m) THEN HandledBy(handle_timer(m, e0))
                        ELSE HandledBy(e0)

\* C12: every message gets exactly one outcome and NotAMatch is never the
\* result of handle_message; a request that is neither an AdminRequest nor a
\* PublicRequest gets the "unexpected request" error and changes nothing; a
\* response that is not a PublicResponse and does not come from the timer
\* gets Ok and changes nothing; at most one of the admin, public-request,
\* public-response and timeout handlers changes the State or sends anything.
C12_EachMessageOneOutcome ==
  [][/\ out'.result # "NotAMatch"
     /\ (/\ out'.msg.kind = "request"
         /\ ~DecodesAsAdminRequest(out'.msg.body)
         /\ ~DecodesAsPublicRequest(out'.msg.body)) =>
           /\ out'.result = "UnexpectedRequest"
           /\ state' = state
           /\ persisted' = persisted
           /\ NoOutput(out')
     /\ (/\ out'.msg.kind = "response"
         /\ ~DecodesAsPublicResponse(out'.msg.body)
         /\ ~FromTimer(out'.msg)) =>
           /\ out'.result = "Ok"
           /\ state' = state
           /\ persisted' = persisted
           /\ NoOutput(out')
     /\ OneHandlerActs]_vars

C12_Witness ==
  /\ IsRequest(out, "Garbage")
  /\ out.result = "UnexpectedRequest"
  /\ IsSome(state.current_job)
  /\ IsSome(state.rollup_sequencer)

\* ---------------------------------------------------------------------- C13
\* C13: while the read sent by await_chain_state has not been answered, the
\* loop stands inside the handler that sent it: the only step is the return
\* of that round trip, for the same message, with no request sent, no timer
\* set, no artifact written and no other message taken from the router or
\* the timer; at most one read is outstanding at any time.
C13_LoopBlockedDuringChainSync ==
  [][/\ syncs' <= 1
     /\ syncs > 0 =>
          /\ pc = "await_chain_state"
          /\ syncs' = 0
          /\ out'.msg = out.msg
          /\ out'.sent = out.sent
          /\ out'.timers = out.timers
          /\ out'.files = out.files
          /\ timers' = timers
          /\ pending' = pending]_vars

C13_Witness ==
  /\ pc = "await_chain_state"
  /\ syncs = 1
  /\ pending > 0
  /\ BagSize(timers) > 0
  /\ IsSome(state.current_job)

\* ---------------------------------------------------------------------- C14
Counter(s) == Unwrap(s.current_job).next_image_number

\* C14: next_image_number only increases: across any one step (an update, a
\* JobQueued confirmation, a timeout, an admin request, a chain sync), if the
\* same job_id is tracked before and after, the counter after is at least
\* the counter before; and no step of a final update leaves a tracked
\* session whose counter it has incremented.
C14_CounterOnlyIncreases ==
  [][/\ (/\ IsSome(state.current_job)
         /\ IsSome(state'.current_job)
         /\ TrackedId(state') = TrackedId(state)) => Counter(state') >= Counter(state)
     /\ (/\ IsRequest(out', "JobUpdate")
         /\ out'.msg.body.is_final
         /\ IsSome(state'.current_job)) =>
           Counter(state') = (IF IsSome(state.current_job) THEN Counter(state) ELSE 0)]_vars

\* ---------------------------------------------------------------------- C15
\* The session an update finds, or the one made for it when none is tracked.
SessionOfUpdate(message) ==
  IF IsNone(state.current_job)
    THEN Some(CurrentJob(message.body.job_id, 0))
    ELSE state.current_job

\* C15: the job state advances (the counter is incremented, or current_job
\* is cleared by a final update) only for an update whose payload has been
\* written to its artifact path, also when opening or writing the artifact
\* fails: an update whose artifact was not written leaves the session as it
\* found it, so the counter equals the number of artifacts written.
C15_ArtifactWrittenBeforeStateAdvances ==
  [][IsRequest(out', "JobUpdate") =>
       \/ state'.current_job = SessionOfUpdate(out'.msg)
       \/ /\ Len(out'.files) = 1
          /\ out'.files[1].written]_vars

\* ---------------------------------------------------------------------- C16
\* C16: a JobUpdate{job_id} handled while no job is tracked first makes and
\* saves the session {job_id, 0} and is then handled as an update of it:
\* with a payload, a non-final update is written to {job_id}-0.jpg and
\* leaves {job_id, 1}, a final one is written to {job_id}-final.jpg and
\* leaves None (two saves in all, Ok exactly when the artifact store took
\* the write); without a payload it fails with the missing-payload error,
\* writes no artifact and leaves the saved session {job_id, 0}.
C16_UpdateWithoutSessionMakesOne ==
  [][(IsRequest(out', "JobUpdate") /\ IsNone(state.current_job)) =>
       LET job_id == out'.msg.body.job_id
           is_final == out'.msg.body.is_final
       IN  /\ persisted' = state'
           /\ \E cj \in {state'.current_job} : state' = [state EXCEPT !.current_job = cj]
           /\ IF out'.msg.blob
                THEN /\ out'.saves = 2
                     /\ Len(out'.files) = 1
                     /\ out'.files[1].file =
                          [job_id |-> job_id,
                           suffix |-> IF is_final THEN "final" ELSE "0"]
                     /\ out'.files[1].written <=> out'.result = "Ok"
                     /\ ~out'.files[1].written <=> out'.result = "VfsError"
                     /\ state'.current_job =
                          IF is_final THEN None ELSE Some(CurrentJob(job_id, 1))
                ELSE /\ out'.saves = 1
                     /\ out'.result = "NoBlob"
                     /\ out'.files = <<>>
                     /\ state'.current_job = Some(CurrentJob(job_id, 0))]_vars

C16_Witness ==
  /\ IsRequest(out, "JobUpdate")
  /\ ~out.msg.body.is_final
  /\ out.saves = 2
  /\ out.result = "Ok"
  /\ out.files = <<[file |-> [job_id |-> out.msg.body.job_id, suffix |-> "0"],
                   written |-> TRUE]>>
  /\ state.current_job = Some(CurrentJob(out.msg.body.job_id, 1))
  /\ persisted = state

\* ---------------------------------------------------------------------- C17
\* C17: on_chain_state changes, in memory or in the record, only in the
\* return of a chain sync that succeeds; a sync that succeeds replaces the
\* whole snapshot by the one the sequencer returned, touches no other field
\* and saves; a sync started by SetRollupSequencer that fails leaves the
\* newly stored rollup_sequencer in place, in memory and in the record, with
\* the snapshot as it was.
C17_SnapshotChangedOnlyBySync ==
  [][/\ (\/ state'.on_chain_state # state.on_chain_state
         \/ persisted'.on_chain_state # persisted.on_chain_state) =>
           /\ pc = "await_chain_state"
           /\ out'.result = "Ok"
           /\ state' = [state EXCEPT !.on_chain_state = state'.on_chain_state]
           /\ persisted' = state'
     /\ pc = "await_chain_state" =>
          \A reply \in SyncReplies :
            SyncReplyError(reply) = "Ok" =>
              LET e == await_chain_state_recv(Effect(state, persisted), reply)
              IN  /\ e.state = [state EXCEPT !.on_chain_state = reply.state]
                  /\ e.saved = e.state
     /\ (/\ pc = "await_chain_state"
         /\ out.msg.body.shape = "SetRollupSequencer"
         /\ out'.result \in SyncFailures) =>
           /\ state' = state
           /\ persisted' = state'
           /\ state'.rollup_sequencer = ParseAddress(out.msg.body.str).val]_vars

C17_Witness ==
  /\ IsRequest(out, "SetRollupSequencer")
  /\ pc = "iteration_done"
  /\ out.result \in SyncFailures
  /\ state.rollup_sequencer = ParseAddress(out.msg.body.str).val
  /\ state.on_chain_state = DefaultOnChainDaoState
  /\ persisted = state

\* ---------------------------------------------------------------------- C18
\* C18: whenever the handler has returned (Ok or Err) or await_message has
\* returned its send error, and the loop is about to receive the next
\* message, the persisted record equals the in-memory State.
C18_RecordEqualsStateBetweenMessages ==
  pc \in {"await_message", "iteration_done"} => persisted = state

C18_Witness ==
  /\ pc = "iteration_done"
  /\ TimerMessage(out)
  /\ out.result = "TimedOut"
  /\ state.current_job = None
  /\ persisted = state
  /\ state # DefaultState

\* ---------------------------------------------------------------------- C19
\* C19: at most one forwarded job submission awaits its confirmation at any
\* time: a RunJob request handled while an earlier forwarded one has not had
\* its response is not forwarded.
C19_OneSubmissionAwaitsConfirmation ==
  [][(IsRequest(out', "RunJob") /\ pending > 0) =>
       (out'.sent = <<>> /\ pending' <= 1)]_vars

\* ---------------------------------------------------------------------- C20
\* C20: every tracked job eventually ends: once current_job is Some it is
\* eventually None, given only that every watchdog timer that was set is
\* delivered and handled, whether the session was made by a JobQueued
\* confirmation or for a JobUpdate that found none.
C20_EveryTrackedJobEnds ==
  IsSome(state.current_job) ~> IsNone(state.current_job)

====
